---- MODULE Spec2Model ----
(***************************************************************************)
(* WhalePrompt, src/main.py: a driver streams a growing structured answer  *)
(* (a list of Whale records) from an agent, validates every delivered     *)
(* snapshot (partially while streaming, strictly at the end) and replaces  *)
(* the table shown in a rich Live display.                                 *)
(*                                                                         *)
(* A snapshot is modelled structurally: the tool arguments either hold no  *)
(* "response" key yet, hold one that is no list, or hold a list of record  *)
(* candidates.  Values are tagged records so that any two values compare.  *)
(* Numbers are counted in halves (61 is 30.5) so that the 0-decimal        *)
(* formatting of line 78/79 really rounds.                                 *)
(*                                                                         *)
(* validate_structured_result is the library call of lines 50-52; it is    *)
(* modelled by pydantic's validation of {"response": list[Whale]} with     *)
(* experimental_allow_partial: an error in the last element of a list is   *)
(* dropped together with the element, an error in the value of the last    *)
(* key of the last TypedDict is dropped together with the key when the key *)
(* is not required, every other error is reported with its location.       *)
(***************************************************************************)
EXTENDS Integers, Sequences, FiniteSets, TLC

VARIABLES
    state,        \* driver state: Starting, Streaming, Done, Failed
    pc,           \* position of main(): init, await, validate, render, end
    snap,         \* the message accumulated by the stream (result's current message)
    fresh,        \* events arrived since the last pair was yielded
    burst,        \* how many: the events of the open debounce window
    endedOpen,    \* the stream ended while a window was open
    streamDone,   \* the model's answer is complete
    last,         \* the `last` flag of the pair being processed
    whales,       \* the value validate_structured_result returned in this cycle
    table,        \* rows of the table the Live display shows
    shown,        \* the records the table on screen was built from
    presented,    \* live.update has replaced the initial blank renderable
    surfaceHeld,  \* inside `with Live(...)`
    error         \* the exception that left main(), if any

vars == <<state, pc, snap, fresh, burst, endedOpen, streamDone, last, whales,
          table, shown, presented, surfaceHeld, error>>

\* ---------------------------------------------------------------- bounds

MaxRecords == 2

\* stream events (a key or a new element each) before the answer is complete
MaxEvents == 8

\* stream events within one debounce window
MaxBurst == 3

\* ---------------------------------------------------------------- values

Absent == [t |-> "absent", s |-> "", n |-> 0]
Str(x) == [t |-> "str", s |-> x, n |-> 0]
Num(h) == [t |-> "num", s |-> "", n |-> h]
\* a JSON value of a type the field cannot be coerced from
Bad == [t |-> "bad", s |-> "", n |-> 0]

\* ---------------------------------------------------------------- Whale

FieldNames == {"name", "length", "weight", "ocean", "description"}

NoKey == "-"

Required == {"name", "length"}

ge == 50

ExpectedType(f) ==
    IF f \in {"length", "weight"} THEN "num" ELSE "str"

TypeError(f) ==
    IF f \in {"length", "weight"} THEN "float_type" ELSE "string_type"

\* FieldErrors without the ge=50 constraint of line 24
MutFieldErrorsNoConstraint(f, v) ==
    IF v.t = "absent"
    THEN IF f \in Required THEN {"missing"} ELSE {}
    ELSE IF v.t # ExpectedType(f)
    THEN {TypeError(f)}
    ELSE {}

\* the errors pydantic reports for the value v of field f (no error: {})
FieldErrors(f, v) ==
    IF v.t = "absent"
    THEN IF f \in Required THEN {"missing"} ELSE {}
    ELSE IF v.t # ExpectedType(f)
    THEN {TypeError(f)}
    ELSE IF f = "weight" /\ v.n < 2 * ge
    THEN {"greater_than_equal"}
    ELSE {}

\* partial validation forgives the errors of the last key when it is not required
Forgiven(f, lastKey) ==
    f = lastKey /\ f \notin Required

\* the errors of one candidate, as pairs <<type, field>>; lastKey is NoKey
\* unless this is the last element of a partially validated list
WhaleErrors(c, lastKey) ==
    UNION {{<<ty, f>> : ty \in FieldErrors(f, c[f])} :
              f \in {g \in FieldNames : ~Forgiven(g, lastKey)}}

\* the validated record: a forgiven key with an invalid value is left out
WhaleValue(c, lastKey) ==
    [f \in FieldNames |->
        IF Forgiven(f, lastKey) /\ FieldErrors(f, c[f]) # {} THEN Absent ELSE c[f]]

\* ---------------------------------------------------------------- snapshots

EmptyCand == [f \in FieldNames |-> Absent]

\* the values the producer may give each field
Domain(f) ==
    CASE f = "name" -> {Str("Blue")}
      [] f = "length" -> {Num(61), Bad}
      [] f = "weight" -> {Num(80), Num(301)}
      [] f = "ocean" -> {Str(""), Str("Arctic")}
      [] OTHER -> {Str("Big")}

NoResponse == [kind |-> "missing", cands |-> <<>>, lastKey |-> NoKey]

\* the number of stream events that extended the message
Events(message) ==
    IF message.kind = "missing" THEN 0
    ELSE IF message.kind = "malformed" THEN 1
    ELSE 1 + Len(message.cands)
           + Cardinality({<<i, f>> \in (1..Len(message.cands)) \X FieldNames :
                             message.cands[i][f] # Absent})

\* ---------------------------------------------------------------- validation

\* ValidateList keeping a last element that still has errors
MutValidateListKeepLast(cands, lastKey, allow_partial) ==
    LET n == Len(cands)
        PartialLast(i) == allow_partial /\ i = n
        KeyOf(i) == IF PartialLast(i) THEN lastKey ELSE NoKey
    IN  [errors |-> UNION {{[type |-> e[1], loc |-> <<"response", i - 1, e[2]>>] :
                               e \in WhaleErrors(cands[i], NoKey)} :
                           i \in {j \in 1..n : ~PartialLast(j)}},
         value |-> [i \in 1..n |-> WhaleValue(cands[i], KeyOf(i))]]

\* ValidateList omitting a last element whose last key is not required
MutValidateListDropOpen(cands, lastKey, allow_partial) ==
    LET n == Len(cands)
        PartialLast(i) == allow_partial /\ i = n
        KeyOf(i) == IF PartialLast(i) THEN lastKey ELSE NoKey
        Omitted(i) == PartialLast(i) /\
                         (WhaleErrors(cands[i], KeyOf(i)) # {} \/ Forgiven(lastKey, lastKey))
        m == IF n > 0 /\ Omitted(n) THEN n - 1 ELSE n
    IN  [errors |-> UNION {{[type |-> e[1], loc |-> <<"response", i - 1, e[2]>>] :
                               e \in WhaleErrors(cands[i], NoKey)} :
                           i \in {j \in 1..n : ~PartialLast(j)}},
         value |-> [i \in 1..m |-> WhaleValue(cands[i], KeyOf(i))]]

\* validation of the list under "response"; with allow_partial the last
\* element is validated partially and omitted when it still has errors
ValidateList(cands, lastKey, allow_partial) ==
    LET n == Len(cands)
        PartialLast(i) == allow_partial /\ i = n
        KeyOf(i) == IF PartialLast(i) THEN lastKey ELSE NoKey
        Omitted(i) == PartialLast(i) /\ WhaleErrors(cands[i], KeyOf(i)) # {}
        m == IF n > 0 /\ Omitted(n) THEN n - 1 ELSE n
    IN  [errors |-> UNION {{[type |-> e[1], loc |-> <<"response", i - 1, e[2]>>] :
                               e \in WhaleErrors(cands[i], NoKey)} :
                           i \in {j \in 1..n : ~PartialLast(j)}},
         value |-> [i \in 1..m |-> WhaleValue(cands[i], KeyOf(i))]]

\* validate_structured_result never validating partially
MutValidateAlwaysStrict(message, allow_partial) ==
    CASE message.kind = "missing" ->
           [errors |-> {[type |-> "missing", loc |-> <<"response">>]}, value |-> <<>>]
      [] message.kind = "malformed" ->
           [errors |-> {[type |-> "list_type", loc |-> <<"response">>]}, value |-> <<>>]
      [] OTHER -> ValidateList(message.cands, message.lastKey, FALSE)

\* validate_structured_result always validating partially
MutValidateAlwaysPartial(message, allow_partial) ==
    CASE message.kind = "missing" ->
           [errors |-> {[type |-> "missing", loc |-> <<"response">>]}, value |-> <<>>]
      [] message.kind = "malformed" ->
           [errors |-> {[type |-> "list_type", loc |-> <<"response">>]}, value |-> <<>>]
      [] OTHER -> ValidateList(message.cands, message.lastKey, TRUE)

\* validate_structured_result reporting an empty list as a missing response
MutValidateEmptyIsMissing(message, allow_partial) ==
    CASE message.kind = "missing" \/ (message.kind = "records" /\ message.cands = <<>>) ->
           [errors |-> {[type |-> "missing", loc |-> <<"response">>]}, value |-> <<>>]
      [] message.kind = "malformed" ->
           [errors |-> {[type |-> "list_type", loc |-> <<"response">>]}, value |-> <<>>]
      [] OTHER -> ValidateList(message.cands, message.lastKey, allow_partial)

\* result.validate_structured_result(message, allow_partial=...): the value,
\* or the entries of the ValidationError (errors # {})
validate_structured_result(message, allow_partial) ==
    CASE message.kind = "missing" ->
           [errors |-> {[type |-> "missing", loc |-> <<"response">>]}, value |-> <<>>]
      [] message.kind = "malformed" ->
           [errors |-> {[type |-> "list_type", loc |-> <<"response">>]}, value |-> <<>>]
      [] OTHER -> ValidateList(message.cands, message.lastKey, allow_partial)

\* the test of lines 54-57 without the comparison of e["loc"]
MutSuppressedAnyMissing(errors) ==
    \A e \in errors : e.type = "missing"

\* the except clause left out: no validation error is suppressed
MutSuppressedNever(errors) == FALSE

\* the test of lines 54-57 with any() in place of all()
MutSuppressedSomeTopMissing(errors) ==
    \E e \in errors : e.type = "missing" /\ e.loc = <<"response">>

\* the test of lines 54-57: every entry is a top-level "missing"
Suppressed(errors) ==
    \A e \in errors : e.type = "missing" /\ e.loc = <<"response">>

\* ---------------------------------------------------------------- rendering

\* the one-character ellipsis U+2026 of lines 79-81, written in ASCII
Placeholder == "..."

\* f"{x:0.0f}" of a number counted in halves: round half to even
Format0(h) ==
    LET q == h \div 2
    IN  ToString(IF h % 2 = 0 THEN q ELSE IF q % 2 = 0 THEN q ELSE q + 1)

\* whale.get("weight") is falsy when absent or 0
WeightCell(whale) ==
    IF whale["weight"].t = "num" /\ whale["weight"].n # 0
    THEN Format0(whale["weight"].n)
    ELSE Placeholder

\* whale.get(f, "") without the `or`
MutTextCellNoPlaceholder(whale, f) == whale[f].s

\* whale.get(f) or the placeholder
TextCell(whale, f) ==
    IF whale[f].t = "str" /\ whale[f].s # "" THEN whale[f].s ELSE Placeholder

\* add_row under enumerate(whales) without start=1
MutRowZeroBased(wid, whale) ==
    <<ToString(wid - 1), whale["name"].s, Format0(whale["length"].n),
      WeightCell(whale), TextCell(whale, "ocean"), TextCell(whale, "description")>>

\* the arguments of table.add_row, lines 75-82
Row(wid, whale) ==
    <<ToString(wid), whale["name"].s, Format0(whale["length"].n),
      WeightCell(whale), TextCell(whale, "ocean"), TextCell(whale, "description")>>

\* whale["name"] and whale["length"] raise KeyError on a record without them
RowRaises(whale) ==
    whale["name"].t = "absent" \/ whale["length"].t = "absent"

\* rows added to the table of the previous cycle instead of a new Table
MutRenderAppend(ws) ==
    table \o [k \in 1..Len(ws) |-> Row(k, ws[k])]

\* a new Table with one row per record, enumerate(whales, start=1)
Render(ws) ==
    [k \in 1..Len(ws) |-> Row(k, ws[k])]

NoError == [kind |-> "none", errors |-> {}]

\* ---------------------------------------------------------------- the run

Init ==
    /\ state = "Starting"
    /\ pc = "init"
    /\ snap = NoResponse
    /\ fresh = FALSE
    /\ burst = 0
    /\ endedOpen = FALSE
    /\ streamDone = FALSE
    /\ last = FALSE
    /\ whales = <<>>
    /\ table = <<>>
    /\ shown = <<>>
    /\ presented = FALSE
    /\ surfaceHeld = FALSE
    /\ error = NoError

\* an exception leaves main() with the Live display still started
MutRaiseKeepsSurface(kind, errors) ==
    /\ state' = "Failed"
    /\ pc' = "end"
    /\ surfaceHeld' = surfaceHeld
    /\ error' = [kind |-> kind, errors |-> errors]

\* an exception leaves main(): both context managers exit, Live stops
Raise(kind, errors) ==
    /\ state' = "Failed"
    /\ pc' = "end"
    /\ surfaceHeld' = FALSE
    /\ error' = [kind |-> kind, errors |-> errors]

\* lines 40-46: enter Live, print, open the stream (which may fail)
Start ==
    /\ pc = "init"
    /\ \E ok \in BOOLEAN :
         IF ok
         THEN /\ state' = "Streaming"
              /\ pc' = "await"
              /\ surfaceHeld' = TRUE
              /\ error' = error
         ELSE Raise("ProducerFailure", {})
    /\ UNCHANGED <<snap, fresh, burst, endedOpen, streamDone, last, whales, table,
                   shown, presented>>

\* the stream advancing while the loop body runs
MutWaitingConcurrent == pc \in {"await", "validate", "render"} /\ ~streamDone

Waiting == pc = "await" /\ ~streamDone

\* the stream receives more of the answer while main() waits at line 48
Emit ==
    /\ Waiting
    /\ Events(snap) < MaxEvents
    /\ burst < MaxBurst
    /\ \/ /\ snap.kind = "missing"
          /\ \E k \in {"missing", "records", "malformed"} :
               snap' = [snap EXCEPT !.kind = k]
       \/ /\ snap.kind = "records"
          /\ Len(snap.cands) < MaxRecords
          /\ snap' = [snap EXCEPT !.cands = Append(@, EmptyCand), !.lastKey = NoKey]
       \/ /\ snap.kind = "records"
          /\ Len(snap.cands) > 0
          /\ \E f \in FieldNames :
               /\ snap.cands[Len(snap.cands)][f] = Absent
               /\ \E v \in Domain(f) :
                    snap' = [snap EXCEPT !.cands[Len(snap.cands)][f] = v,
                                         !.lastKey = f]
    /\ fresh' = TRUE
    /\ burst' = burst + 1
    /\ UNCHANGED <<state, pc, endedOpen, streamDone, last, whales, table, shown,
                   presented, surfaceHeld, error>>

\* the answer is complete
StreamEnd ==
    /\ Waiting
    /\ streamDone' = TRUE
    /\ endedOpen' = fresh
    /\ UNCHANGED <<state, pc, snap, fresh, burst, last, whales, table, shown,
                   presented, surfaceHeld, error>>

\* the stream fails; the exception propagates out of the async for
StreamFail ==
    /\ Waiting
    /\ Raise("ProducerFailure", {})
    /\ UNCHANGED <<snap, fresh, burst, endedOpen, streamDone, last, whales, table,
                   shown, presented>>

\* line 48 yielding one pair per stream event instead of one per window
MutReceivePerEvent ==
    /\ pc = "await"
    /\ fresh
    /\ ~last
    /\ fresh' = (burst > 1)
    /\ burst' = burst - 1
    /\ last' = FALSE
    /\ pc' = "validate"
    /\ UNCHANGED <<state, snap, endedOpen, streamDone, whales, table, shown,
                   presented, surfaceHeld, error>>

\* line 48 yields (message, False): the message accumulated so far
Receive ==
    /\ pc = "await"
    /\ fresh
    /\ ~last
    /\ fresh' = FALSE
    /\ burst' = 0
    /\ last' = FALSE
    /\ pc' = "validate"
    /\ UNCHANGED <<state, snap, endedOpen, streamDone, whales, table, shown,
                   presented, surfaceHeld, error>>

\* the final pair is lost when the stream ended inside an open window
MutReceiveFinalLostInWindow ==
    /\ pc = "await"
    /\ streamDone
    /\ ~endedOpen
    /\ ~fresh
    /\ ~last
    /\ last' = TRUE
    /\ pc' = "validate"
    /\ UNCHANGED <<state, snap, fresh, burst, endedOpen, streamDone, whales, table,
                   shown, presented, surfaceHeld, error>>

\* the final pair is yielded again and again
MutReceiveFinalAgain ==
    /\ pc = "await"
    /\ streamDone
    /\ ~fresh
    /\ last' = TRUE
    /\ pc' = "validate"
    /\ UNCHANGED <<state, snap, fresh, burst, endedOpen, streamDone, whales, table,
                   shown, presented, surfaceHeld, error>>

\* line 48 yields (message, True) once the stream is exhausted
ReceiveFinal ==
    /\ pc = "await"
    /\ streamDone
    /\ ~fresh
    /\ ~last
    /\ last' = TRUE
    /\ pc' = "validate"
    /\ UNCHANGED <<state, snap, fresh, burst, endedOpen, streamDone, whales, table,
                   shown, presented, surfaceHeld, error>>

\* lines 49-60 with a handler that blanks the display before raising
MutValidateClearsOnError ==
    /\ pc = "validate"
    /\ LET r == validate_structured_result(snap, ~last)
       IN  IF r.errors = {}
           THEN /\ whales' = r.value
                /\ pc' = "render"
                /\ UNCHANGED <<state, surfaceHeld, error, table, shown, presented>>
           ELSE IF Suppressed(r.errors)
           THEN /\ pc' = "await"
                /\ UNCHANGED <<state, whales, surfaceHeld, error, table, shown,
                               presented>>
           ELSE /\ Raise("ValidationError", r.errors)
                /\ table' = <<>>
                /\ UNCHANGED <<whales, shown, presented>>
    /\ UNCHANGED <<snap, fresh, burst, endedOpen, streamDone, last>>

\* lines 49-60
Validate ==
    /\ pc = "validate"
    /\ LET r == validate_structured_result(snap, ~last)
       IN  IF r.errors = {}
           THEN /\ whales' = r.value
                /\ pc' = "render"
                /\ UNCHANGED <<state, surfaceHeld, error>>
           ELSE IF Suppressed(r.errors)
           THEN /\ pc' = "await"
                /\ UNCHANGED <<state, whales, surfaceHeld, error>>
           ELSE /\ Raise("ValidationError", r.errors)
                /\ UNCHANGED whales
    /\ UNCHANGED <<snap, fresh, burst, endedOpen, streamDone, last, table, shown,
                   presented>>

\* lines 62-83: build the table, live.update(table) (which may fail)
Present ==
    /\ pc = "render"
    /\ IF \E k \in 1..Len(whales) : RowRaises(whales[k])
       THEN /\ Raise("KeyError", {})
            /\ UNCHANGED <<table, shown, presented>>
       ELSE \E ok \in BOOLEAN :
              IF ok
              THEN /\ table' = Render(whales)
                   /\ shown' = whales
                   /\ presented' = TRUE
                   /\ pc' = "await"
                   /\ UNCHANGED <<state, surfaceHeld, error>>
              ELSE /\ Raise("DisplayFailure", {})
                   /\ UNCHANGED <<table, shown, presented>>
    /\ UNCHANGED <<snap, fresh, burst, endedOpen, streamDone, last, whales>>

\* the async for ends after the pair with last = True; main() returns
Finish ==
    /\ pc = "await"
    /\ last
    /\ state' = "Done"
    /\ pc' = "end"
    /\ surfaceHeld' = FALSE
    /\ UNCHANGED <<snap, fresh, burst, endedOpen, streamDone, last, whales, table,
                   shown, presented, error>>

Next ==
    \/ Start
    \/ Emit
    \/ StreamEnd
    \/ StreamFail
    \/ Receive
    \/ ReceiveFinal
    \/ Validate
    \/ Present
    \/ Finish

Spec == Init /\ [][Next]_vars

\* the event loop runs whatever can run; the producer ends or fails
FairSpec == Spec /\ WF_vars(Next)

\* ---------------------------------------------------------------- vocabulary of the claims

N == Len(snap.cands)

LacksRequired(c) == c["name"] = Absent \/ c["length"] = Absent

\* a value of the wrong type, or a weight below 50
Violates(c) ==
    \/ c["name"].t \notin {"absent", "str"}
    \/ c["length"].t \notin {"absent", "num"}
    \/ c["weight"].t \notin {"absent", "num"}
    \/ c["ocean"].t \notin {"absent", "str"}
    \/ c["description"].t \notin {"absent", "str"}
    \/ (c["weight"].t = "num" /\ c["weight"].n < 2 * 50)

\* the candidate is a valid Whale
Complete(c) == ~LacksRequired(c) /\ ~Violates(c)

\* the only defect of the candidate is the absence of required fields
LacksOnlyRequired(c) == LacksRequired(c) /\ ~Violates(c)

IsList == snap.kind = "records"

InteriorComplete == \A i \in 1..(N - 1) : Complete(snap.cands[i])

\* the snapshot validates strictly
StrictlyValid == IsList /\ \A i \in 1..N : Complete(snap.cands[i])

\* the snapshot can still grow into one that validates strictly
GrowsToValid ==
    /\ snap.kind # "malformed"
    /\ InteriorComplete
    /\ \A i \in 1..N : ~Violates(snap.cands[i])

FailedBy(kind) == state = "Failed" /\ error.kind = kind

\* the table on screen is the rendering of the final snapshot
FinalTableShown ==
    /\ state = "Done"
    /\ presented
    /\ error = NoError
    /\ table = Render(snap.cands)

\* ---------------------------------------------------------------- C1

\* C1 as stated, on runs whose final snapshot holds a list and whose display
\* works: a run that ended after the pair with is_final = true ended in Done
\* with the rendering of the final snapshot on screen.
C1_Original ==
    (pc = "end" /\ last /\ IsList /\ error.kind # "DisplayFailure")
        => FinalTableShown

\* C1 amended: when the final snapshot validates strictly, no snapshot of the
\* run is refused by validation, and once the stream has ended the driver
\* reaches Done with the rendering of the final snapshot on screen, unless the
\* display itself fails.
C1_FinalValidReachesDone ==
    /\ [](FailedBy("ValidationError") => ~(IF last THEN StrictlyValid ELSE GrowsToValid))
    /\ []((streamDone /\ StrictlyValid)
            => <>(FailedBy("DisplayFailure") \/ FinalTableShown))

C1_Witness ==
    /\ last
    /\ StrictlyValid
    /\ N = 2
    /\ FinalTableShown

\* ---------------------------------------------------------------- C2

\* all records complete but the last, which lacks only required fields
TrailingLacksOnlyRequired ==
    /\ IsList
    /\ N > 0
    /\ InteriorComplete
    /\ LacksOnlyRequired(snap.cands[N])

InteriorLacksRequired ==
    IsList /\ \E i \in 1..(N - 1) : LacksRequired(snap.cands[i])

\* the exception carries a "missing" entry located in a record
MissingRequiredIn(errors) ==
    \E e \in errors : e.type = "missing" /\ Len(e.loc) = 3

\* C3: validating a snapshot with an interior record that lacks a required
\* field raises a validation error with a missing-field entry and fails the
\* driver, whatever is_final; nothing is rendered and the table is untouched.
C3_InteriorMissingFatal ==
    [][(pc = "validate" /\ InteriorLacksRequired)
          => /\ state' = "Failed"
             /\ error'.kind = "ValidationError"
             /\ MissingRequiredIn(error'.errors)
             /\ pc' = "end"
             /\ table' = table
             /\ presented' = presented]_vars

C3_Witness ==
    /\ FailedBy("ValidationError")
    /\ ~last
    /\ InteriorLacksRequired
    /\ \A e \in error.errors : e.type = "missing"

\* ---------------------------------------------------------------- C4

TrailingLacksRequired ==
    IsList /\ N > 0 /\ LacksRequired(snap.cands[N])

\* C4: at finality a last candidate that lacks a required field raises a
\* validation error naming the field of that record, and the driver fails
\* without rendering.
C4_FinalMissingFatal ==
    [][(pc = "validate" /\ last /\ TrailingLacksRequired)
          => /\ state' = "Failed"
             /\ error'.kind = "ValidationError"
             /\ \E f \in Required :
                  [type |-> "missing", loc |-> <<"response", N - 1, f>>] \in error'.errors
             /\ pc' = "end"
             /\ table' = table]_vars

\* the same snapshot was tolerated and rendered while streaming
C4_Witness ==
    /\ FailedBy("ValidationError")
    /\ last
    /\ TrailingLacksOnlyRequired
    /\ N = 2
    /\ presented
    /\ Len(table) = 1

\* ---------------------------------------------------------------- C5

AnyViolation == IsList /\ \E i \in 1..N : Violates(snap.cands[i])

InteriorViolation == IsList /\ \E i \in 1..(N - 1) : Violates(snap.cands[i])

C6_FinalUninterpretableFatal ==
    (pc = "end" /\ last /\ ~IsList) => (state = "Failed" /\ error # NoError)

\* ---------------------------------------------------------------- C7

EmptyList == IsList /\ N = 0

\* C7: a run whose final snapshot is an empty list ends, unless the display
\* fails, in Done with a presented table of zero rows and no error; and the
\* validation of that snapshot returns the empty sequence.
C7_EmptyFinalRendered ==
    [][/\ (pc = "validate" /\ last /\ EmptyList)
            => (pc' = "render" /\ whales' = <<>> /\ error' = NoError)
       /\ (pc' = "end" /\ last /\ EmptyList /\ error'.kind # "DisplayFailure")
            => (state' = "Done" /\ presented' /\ table' = <<>> /\ error' = NoError)]_vars

C7_Witness ==
    /\ state = "Done"
    /\ last
    /\ EmptyList
    /\ presented
    /\ table = <<>>

\* ---------------------------------------------------------------- C8

NoViolation == \A i \in 1..N : ~Violates(snap.cands[i])

OptionalCell(k, col, f) ==
    /\ table[k][col] # ""
    /\ shown[k][f] = Absent => table[k][col] = Placeholder

\* C9: in every presented table each optional cell of a record lacking that
\* field is the placeholder and no optional cell is empty; and a snapshot all
\* of whose records are valid, lacking optional fields or not, is never
\* refused by validation.
C9_OptionalPlaceholder ==
    /\ presented =>
         /\ Len(table) = Len(shown)
         /\ \A k \in 1..Len(table) :
              /\ OptionalCell(k, 4, "weight")
              /\ OptionalCell(k, 5, "ocean")
              /\ OptionalCell(k, 6, "description")
    /\ FailedBy("ValidationError") => ~StrictlyValid

C9_Witness ==
    /\ presented
    /\ Len(table) = 2
    /\ shown[1]["weight"] = Absent
    /\ shown[1]["ocean"] = Str("")
    /\ shown[2]["ocean"] = Absent
    /\ shown[2]["description"] = Absent
    /\ table[2][5] = Placeholder

\* ---------------------------------------------------------------- C10

\* C10: presenting a record sequence equal to the one the table on screen
\* was built from leaves the table as it is, whatever is_final and whatever
\* was rendered before.
C10_RenderIdempotent ==
    [][(pc = "render" /\ presented /\ whales = shown /\ pc' = "await")
          => table' = table]_vars

\* the final snapshot validated to the records already on screen and is
\* about to be rendered again
C10_Witness ==
    /\ pc = "render"
    /\ last
    /\ presented
    /\ whales = shown
    /\ Len(table) = 2

\* ---------------------------------------------------------------- C11

\* a pair is yielded to the loop body
Yielded == pc = "await" /\ pc' = "validate"

InCycle == pc \in {"validate", "render"}

C12_FinalForwardedLast ==
    /\ [](streamDone => <>(last \/ state = "Failed"))
    /\ [][/\ last => (last' /\ ~Yielded)
          /\ (Yielded /\ last') => (streamDone /\ ~fresh /\ snap' = snap)
          /\ Events(snap') >= Events(snap)]_vars

\* the final pair was yielded although the stream ended inside a window
C12_Witness ==
    /\ endedOpen
    /\ last
    /\ pc = "validate"
    /\ IsList

\* ---------------------------------------------------------------- C13

\* C13: the step that moves the driver to Failed leaves the table on screen
\* as it is (the last table presented, or the initial blank), ends main()
\* and carries the exception out.
C13_FailureKeepsTable ==
    [][(state' = "Failed" /\ state # "Failed")
          => /\ table' = table
             /\ shown' = shown
             /\ presented' = presented
             /\ pc' = "end"
             /\ error' # NoError]_vars

C13_Witness ==
    /\ FailedBy("ValidationError")
    /\ presented
    /\ Len(table) = 1
    /\ N = 2

\* ---------------------------------------------------------------- C14

Terminal == {"Done", "Failed"}

\* C14: the validation of a non-final message without the top-level
\* collection changes nothing: the table, what it was built from and the
\* display stay as they are, nothing is raised, the driver stays in Streaming
\* inside the Live display and waits for the next pair.
C14_NoUpdateCycle ==
    [][(pc = "validate" /\ ~last /\ snap.kind = "missing")
          => /\ pc' = "await"
             /\ state' = "Streaming"
             /\ ~last'
             /\ table' = table
             /\ shown' = shown
             /\ presented' = presented
             /\ whales' = whales
             /\ surfaceHeld'
             /\ error' = NoError]_vars

\* a non-final cycle ran after the stream had ended and left no trace
C14_Witness ==
    /\ pc = "await"
    /\ state = "Streaming"
    /\ snap.kind = "missing"
    /\ endedOpen
    /\ ~fresh
    /\ ~last
    /\ ~presented

\* ---------------------------------------------------------------- C15

\* C15: no step is taken from Done or Failed, and once the pair with
\* is_final = true has been yielded no further pair is yielded.
C15_TerminalStates ==
    [][/\ state \notin Terminal
       /\ last => ~Yielded]_vars

\* the driver failed while the stream was still open
C15_Witness ==
    /\ FailedBy("ValidationError")
    /\ pc = "end"
    /\ ~streamDone

\* ---------------------------------------------------------------- C16

\* C16: the loop body runs validate, then render, then returns to line 48;
\* nothing arrives and no pair is yielded while it runs, and the table it
\* presents is the rendering of the message yielded for this cycle, which is
\* the most recent one.
C16_CyclesSequential ==
    [][/\ InCycle => (snap' = snap /\ fresh' = fresh /\ streamDone' = streamDone
                         /\ last' = last)
       /\ pc' = "validate" => pc = "await"
       /\ pc' = "render" => pc = "validate"
       /\ (pc = "render" /\ pc' = "await")
            => table' = Render(validate_structured_result(snap', ~last').value)]_vars

\* a later cycle is about to replace the table of an earlier one
C16_Witness ==
    /\ pc = "render"
    /\ presented
    /\ Len(shown) = 1
    /\ Len(whales) = 2

\* ---------------------------------------------------------------- C17

\* C17: the display is entered only by the first step of main(), is held
\* whenever a pair is yielded or the table changes, and is no longer held
\* in Done or Failed, whatever ended the run.
C17_SurfaceScoped ==
    [][/\ (surfaceHeld' /\ ~surfaceHeld) => pc = "init"
       /\ Yielded => surfaceHeld
       /\ (table' # table \/ presented' # presented) => (surfaceHeld /\ surfaceHeld')
       /\ state' \in Terminal => ~surfaceHeld'
       /\ state' = "Streaming" => surfaceHeld']_vars

C17_Witness ==
    /\ FailedBy("DisplayFailure")
    /\ presented
    /\ ~surfaceHeld

\* ---------------------------------------------------------------- C18

\* C18: a validated sequence holds only records with name and length, its
\* rendering raises no KeyError, and unless the display fails the cycle
\* presents one table with one row per record, in order, the k-th row
\* numbered k.
C18_OneRowPerRecord ==
    [][/\ (pc = "validate" /\ pc' = "render")
            => \A k \in 1..Len(whales') :
                  whales'[k]["name"] # Absent /\ whales'[k]["length"] # Absent
       /\ pc = "render"
            => /\ error'.kind \in {"none", "DisplayFailure"}
               /\ error'.kind = "none"
                    => /\ pc' = "await"
                       /\ presented'
                       /\ Len(table') = Len(whales)
                       /\ \A k \in 1..Len(whales) :
                            /\ table'[k][1] = ToString(k)
                            /\ table'[k][2] = whales[k]["name"].s
                            /\ whales[k]["ocean"].s # ""
                                 => table'[k][5] = whales[k]["ocean"].s]_vars

\* the second record is on screen without the weight it is still receiving
C18_Witness ==
    /\ pc = "await"
    /\ presented
    /\ ~fresh
    /\ N = 2
    /\ Len(table) = 2
    /\ table[2][1] = "2"
    /\ snap.cands[2]["weight"] = Num(80)
    /\ shown[2]["weight"] = Absent

\* ---------------------------------------------------------------- C19

TopMissing(e) == e.type = "missing" /\ e.loc = <<"response">>

\* error entries of every shape: type and location right, one wrong, both wrong
SampleEntries ==
    {[type |-> "missing", loc |-> <<"response">>],
     [type |-> "list_type", loc |-> <<"response">>],
     [type |-> "missing", loc |-> <<"response", 0, "name">>],
     [type |-> "greater_than_equal", loc |-> <<"response", 1, "weight">>]}

\* C19: a validation error is suppressed exactly when every entry is a
\* "missing" at ("response",); one with any other entry, even next to such
\* entries, fails the driver and leaves main() with its entries unchanged.
C19_SuppressionRule ==
    [][pc = "validate" =>
         LET r == validate_structured_result(snap, ~last)
         IN  /\ (r.errors # {} /\ \A e \in r.errors : TopMissing(e))
                  => (pc' = "await" /\ error' = NoError /\ state' = "Streaming")
             /\ (\E e \in r.errors : ~TopMissing(e))
                  => /\ state' = "Failed"
                     /\ error' = [kind |-> "ValidationError", errors |-> r.errors]
             /\ \A errs \in SUBSET SampleEntries :
                  Suppressed(errs) <=> (\A e \in errs : TopMissing(e))]_vars

\* an entry at ("response",) of another type was raised
C19_Witness ==
    /\ FailedBy("ValidationError")
    /\ \E e \in error.errors : e.loc = <<"response">> /\ e.type # "missing"

====
